---------------------------- MODULE Spec2Model ----------------------------
(***************************************************************************)
(* Model of klippy/kinematics/corexy_abc.py (class CoreXYKinematicsABC):   *)
(* construction, the soft-limit array, set_position, homing, move          *)
(* validation and status reporting.                                        *)
(*                                                                         *)
(* Conventions.  Python lists are functions over 0..n-1 so that indices    *)
(* read as in the source.  Coordinates are integers (1 = 1.0), so the      *)
(* unhomed sentinel (1.0, -1.0) is <<1, -1>>.  Values that the source      *)
(* obtains with the factor 1.5 (forcepos) are kept in half units, and      *)
(* speeds that the source obtains by a float division are kept as exact    *)
(* fractions [n, d].  None is the empty sequence <<>> and a present value  *)
(* v is <<v>>.                                                             *)
(***************************************************************************)
EXTENDS Integers, Sequences, FiniteSets, TLC

VARIABLES
    kin,      \* the kinematics object: configuration and what __init__ built
    limits,   \* self.limits, a function 0..2 -> <<low, high>>
    railpos,  \* the position register of every rail (rail.set_position)
    last,     \* the last completed call: its name, inputs and result
    hs,       \* the home() request in progress and the homing moves it issued
    cm        \* the check_move() call in progress (interleaved execution)

vars == <<kin, limits, railpos, last, hs, cm>>

---------------------------------------------------------------------------
(* Bounds of the model *)

\* move end positions are drawn from -MaxCoord..MaxCoord
MaxCoord == 2
\* set_position receives 1..MaxNewPos as the new position
MaxNewPos == 2
\* a homing_axes argument holds at most this many axis indices
MaxHomingAxes == 2
\* a HomingState lists at most this many axes
MaxHomeLen == 2
\* the constructor receives at most this many axis indices ...
MaxIds == 4
\* ... each drawn from 0..MaxAxisId
MaxAxisId == 5

---------------------------------------------------------------------------
(* Small helpers *)

None == <<>>
Some(v) == <<v>>

Abs(x) == IF x < 0 THEN -x ELSE x

\* fractions n/d with d > 0
Frac(n, d) == [n |-> n, d |-> d]
FracLess(p, q) == p.n * q.d < q.n * p.d
FracEq(p, q) == p.n * q.d = q.n * p.d
FracMin(p, q) == IF FracLess(q, p) THEN q ELSE p

\* a Python list of length n as a function over 0..n-1
ListOf(seq) == [i \in 0..(Len(seq) - 1) |-> seq[i + 1]]
ListLen(l) == Cardinality(DOMAIN l)

---------------------------------------------------------------------------
(* Configuration of the rails (external collaborator stepper.PrinterRail). *)
(* A rail has a number of steppers and a list of endstops, each endstop    *)
(* with the steppers of the rail that are registered on it.                *)

\* the letters of the dummy-axis alphabet "XYZABCUVW"
Alphabet == ListOf(<<"X", "Y", "Z", "A", "B", "C", "U", "V", "W">>)

\* a rail with a negative travel range, homing towards its maximum
RailNeg == [min |-> -3, max |-> -2, position_endstop |-> -2, positive_dir |-> TRUE,
            steppers |-> 1, endstops |-> ListOf(<<{ 1 }>>)]
\* a rail with travel range [0,1], homing towards its minimum, with two
\* steppers that have an endstop each
RailPos == [min |-> 0, max |-> 1, position_endstop |-> 0, positive_dir |-> FALSE,
            steppers |-> 2, endstops |-> ListOf(<<{ 1 }, { 2 }>>)]
\* a rail whose endstop lies inside its travel range [-1,2]
RailMid == [min |-> -1, max |-> 2, position_endstop |-> 1, positive_dir |-> TRUE,
            steppers |-> 1, endstops |-> ListOf(<<{ 1 }>>)]

\* the rail configurations of one machine, by rail index
RailLayouts ==
    { ListOf(<<RailNeg, RailPos, RailMid>>),
      ListOf(<<RailPos, RailMid, RailNeg>>) }

\* rail.get_range()
get_range(rail) == <<rail.min, rail.max>>

\* config values max_z_velocity and max_z_accel
max_z_velocity == 2
max_z_accel == 1

---------------------------------------------------------------------------
(* Construction: CoreXYKinematicsABC.__init__ *)

\* the unhomed sentinel (1.0, -1.0)
Unhomed == <<1, -1>>

\* reset_limits(): a fresh list of three sentinels
reset_limits == [i \in 0..2 |-> Unhomed]

\* the steppers of rail i (rail.get_steppers())
get_steppers(rails, i) == { <<i, k>> : k \in 1..rails[i].steppers }

\* the endstops of rail i (rail.get_endstops()), each as its stepper set
get_endstops(rails, i) ==
    [ j \in DOMAIN rails[i].endstops |-> { <<i, k>> : k \in rails[i].endstops[j] } ]

\* all steppers of all rails (self.get_steppers())
all_steppers(rails) == UNION { get_steppers(rails, i) : i \in DOMAIN rails }

\* the object before __init__ has run on the arguments args
NewKin(args) ==
    [ status |-> "new", args |-> args, msg |-> None,
      axis_config |-> None, axis_names |-> None, axis_count |-> 0,
      axis |-> None, dummy_axes |-> {}, dummy_axes_names |-> {},
      rails |-> <<>>, endstop_steppers |-> <<>>, itersolve |-> <<>>,
      step_generators |-> {}, event_handlers |-> {},
      axes_min |-> None, axes_max |-> None ]

\* lines 17-26: the stored inputs and the length check
InitChecked(args) ==
    LET k == [ NewKin(args) EXCEPT !.axis_config = args.axes_ids,
                                   !.axis_names = args.axis_set_letters,
                                   !.axis_count = ListLen(args.axis_set_letters) ]
    IN IF ListLen(k.axis_config) # k.axis_count
       THEN [ k EXCEPT !.status = "Exception",
                       !.msg = Some(<<k.axis_config, k.axis_names>>) ]
       ELSE k

\* lines 28-40: the triplet and the dummy axes
InitTriplet(k) ==
    IF ListLen(k.args.axes_ids) = 0
    THEN [ k EXCEPT !.status = "IndexError" ]
    ELSE LET triplet_number == k.args.axes_ids[0] \div 3
             axis == [ i \in 0..2 |-> 3 * triplet_number + i ]
             dummy == { axis[i] : i \in 0..2 } \ { k.axis_config[i] : i \in DOMAIN k.axis_config }
         IN IF \E a \in dummy : a \notin DOMAIN Alphabet
            THEN [ k EXCEPT !.status = "IndexError", !.axis = axis, !.dummy_axes = dummy ]
            ELSE [ k EXCEPT !.axis = axis, !.dummy_axes = dummy,
                            !.dummy_axes_names = { Alphabet[a] : a \in dummy } ]

\* lines 63-79: the rails, the endstop cross-registration on the first
\* endstop of each rail of the pair (get_endstops()[0][0]) and the solvers
InitRails(k) ==
    LET n == k.axis_count
        rails == [ i \in 0..(n - 1) |-> k.args.layout[i % 3] ]
        own == [ i \in 0..(n - 1) |-> get_endstops(rails, i) ]
        k1 == [ k EXCEPT !.rails = rails, !.endstop_steppers = own,
                         !.itersolve = [ i \in 0..(n - 1) |-> "none" ] ]
    IN IF n < 2
       THEN [ k1 EXCEPT !.status = "IndexError" ]
       ELSE LET crossed == [ own EXCEPT ![0][0] = @ \cup get_steppers(rails, 1),
                                        ![1][0] = @ \cup get_steppers(rails, 0) ]
                k2 == [ k1 EXCEPT !.endstop_steppers = crossed,
                                  !.itersolve[0] = "corexy+",
                                  !.itersolve[1] = "corexy-" ]
            IN IF n < 3
               THEN [ k2 EXCEPT !.status = "IndexError" ]
               ELSE [ k2 EXCEPT !.itersolve[2] = "cartesian_z" ]

\* lines 80-107: step generators, the motor_off handler and the bounds
InitRegister(k) ==
    [ k EXCEPT !.status = "ok",
               !.step_generators = all_steppers(k.rails),
               !.event_handlers = { "stepper_enable:motor_off" },
               !.axes_min = Some([ i \in DOMAIN k.rails |-> get_range(k.rails[i])[1] ]),
               !.axes_max = Some([ i \in DOMAIN k.rails |-> get_range(k.rails[i])[2] ]) ]

\* __init__ as a whole: each stage runs unless an earlier one raised
CoreXYKinematicsABC(args) ==
    LET a == InitChecked(args)
        b == IF a.status = "new" THEN InitTriplet(a) ELSE a
        c == IF b.status = "new" THEN InitRails(b) ELSE b
    IN IF c.status = "new" THEN InitRegister(c) ELSE c

---------------------------------------------------------------------------
(* The limit array: reset_limits, set_position, note_z_not_homed, _motor_off *)

\* a Limit is homed when low <= high
Homed(l) == l[1] <= l[2]

\* a slip: every rail's slot is set, whatever homing_axes holds
set_position_limits_all_rails(k, lim, homing_axes) ==
    [ i \in 0..2 |-> IF i \in DOMAIN k.rails THEN get_range(k.rails[i]) ELSE lim[i] ]

\* a slip: the range is taken from the rail of the next slot
set_position_limits_next_rail(k, lim, homing_axes) ==
    [ i \in 0..2 |-> IF i \in DOMAIN k.rails /\ i \in homing_axes
                     THEN get_range(k.rails[(i + 1) % 3])
                     ELSE lim[i] ]

\* set_position (lines 124-128): the limits after the call.  i runs over
\* the rails, and a rail's own index i is what is looked up in homing_axes
set_position_limits(k, lim, homing_axes) ==
    [ i \in 0..2 |-> IF i \in DOMAIN k.rails /\ i \in homing_axes
                     THEN get_range(k.rails[i])
                     ELSE lim[i] ]

\* set_position (lines 125-126): every rail receives newpos
set_position_rails(k, pos, newpos) ==
    [ i \in DOMAIN pos |-> IF i \in DOMAIN k.rails THEN newpos ELSE pos[i] ]

\* a slip: the sentinel is written to slot 1
note_z_not_homed_slot1(lim) == [ lim EXCEPT ![1] = Unhomed ]

\* note_z_not_homed (lines 129-131)
note_z_not_homed(lim) == [ lim EXCEPT ![2] = Unhomed ]

\* a slip: only the limits of the coupled pair are reset
motor_off_xy_only(lim) == [ lim EXCEPT ![0] = Unhomed, ![1] = Unhomed ]

\* _motor_off (lines 148-149) calls reset_limits
motor_off(lim) == reset_limits

\* a slip: the letters are taken by position in the filtered list
get_status_letters_by_rank(k, lim) ==
    LET xyz == <<"x", "y", "z">>
        kept == SelectSeq([ j \in 1..3 |-> lim[j - 1] ], LAMBDA l : l[1] <= l[2])
    IN [ homed_axes |-> [ j \in 1..Len(kept) |-> xyz[j] ],
         axis_minimum |-> k.axes_min,
         axis_maximum |-> k.axes_max ]

\* get_status (lines 173-179): zip("xyz", self.limits), keep l <= h, join
get_status(k, lim) ==
    LET xyz == <<"x", "y", "z">>
        n == IF ListLen(lim) < 3 THEN ListLen(lim) ELSE 3
        zipped == [ j \in 1..n |-> <<xyz[j], lim[j - 1]>> ]
        kept == SelectSeq(zipped, LAMBDA p : p[2][1] <= p[2][2])
    IN [ homed_axes |-> [ j \in 1..Len(kept) |-> kept[j][1] ],
         axis_minimum |-> k.axes_min,
         axis_maximum |-> k.axes_max ]

---------------------------------------------------------------------------
(* Move validation: _check_endstops, check_move *)

\* _check_endstops (lines 150-158) from axis i on: "ok" when it returns,
\* otherwise the message of the move_error it raises
RECURSIVE check_endstops_from(_, _, _)
check_endstops_from(lim, move, i) ==
    IF i > 2 THEN "ok"
    ELSE IF move.axes_d[i] # 0
            /\ (move.end_pos[i] < lim[i][1] \/ move.end_pos[i] > lim[i][2])
         THEN IF lim[i][1] > lim[i][2] THEN "Must home axis first"
              ELSE "move_error"
         ELSE check_endstops_from(lim, move, i + 1)

check_endstops(lim, move) == check_endstops_from(lim, move, 0)

\* a slip: the test of line 163 for axis 1 is forgotten
xy_outside_axis0_only(lim, move) ==
    move.end_pos[0] < lim[0][1] \/ move.end_pos[0] > lim[0][2]

\* line 162-163: the end position of axis 0 or axis 1 is outside its limit
xy_outside(lim, move) ==
    \/ move.end_pos[0] < lim[0][1] \/ move.end_pos[0] > lim[0][2]
    \/ move.end_pos[1] < lim[1][1] \/ move.end_pos[1] > lim[1][2]

\* a slip: the ratio of line 170 is taken the other way round
z_request_inverted(move) ==
    [ speed |-> Frac(max_z_velocity * Abs(move.axes_d[2]), move.move_d),
      accel |-> Frac(max_z_accel * Abs(move.axes_d[2]), move.move_d) ]

\* lines 170-172: the speed and acceleration that check_move requests
z_request(move) ==
    [ speed |-> Frac(max_z_velocity * move.move_d, Abs(move.axes_d[2])),
      accel |-> Frac(max_z_accel * move.move_d, Abs(move.axes_d[2])) ]

\* Move.limit_speed of the motion planner: each cap becomes the minimum of
\* itself and the requested value
limit_speed(move, speed, accel) ==
    [ move EXCEPT !.v = FracMin(move.v, speed), !.a = FracMin(move.a, accel) ]

\* the result of a call: how it ended and the move as the call left it
Result(outcome, move, req) == [ outcome |-> outcome, move |-> move, req |-> req ]

\* a slip: the diagnosis of line 168 is left out
check_move_z_unchecked(lim, move) ==
    LET first == IF xy_outside(lim, move) THEN check_endstops(lim, move) ELSE "ok"
    IN IF first # "ok" THEN Result(first, move, None)
       ELSE IF move.axes_d[2] = 0 THEN Result("ok", move, None)
       ELSE LET req == z_request(move)
            IN Result("ok", limit_speed(move, req.speed, req.accel), Some(req))

\* a slip: the caps are scaled before the diagnosis of line 168
check_move_scales_first(lim, move) ==
    LET first == IF xy_outside(lim, move) THEN check_endstops(lim, move) ELSE "ok"
    IN IF first # "ok" THEN Result(first, move, None)
       ELSE IF move.axes_d[2] = 0 THEN Result("ok", move, None)
       ELSE LET req == z_request(move)
                scaled == limit_speed(move, req.speed, req.accel)
                second == check_endstops(lim, move)
            IN IF second # "ok" THEN Result(second, scaled, None)
               ELSE Result("ok", scaled, Some(req))

\* check_move (lines 159-172), executed without interruption
check_move(lim, move) ==
    LET first == IF xy_outside(lim, move) THEN check_endstops(lim, move) ELSE "ok"
    IN IF first # "ok" THEN Result(first, move, None)
       ELSE IF move.axes_d[2] = 0 THEN Result("ok", move, None)
       ELSE LET second == check_endstops(lim, move)
                req == z_request(move)
            IN IF second # "ok" THEN Result(second, move, None)
               ELSE Result("ok", limit_speed(move, req.speed, req.accel), Some(req))

---------------------------------------------------------------------------
(* Homing: home *)

\* lines 137-145: forcepos and homepos for one axis, lists of 4 slots.
\* forcepos is homepos -/+ 1.5 * distance, kept as a fraction over 2
home_positions(rail, axis) ==
    LET position_min == get_range(rail)[1]
        position_max == get_range(rail)[2]
        e == rail.position_endstop
        homepos == [ j \in 0..3 |-> IF j = axis THEN Some(e) ELSE None ]
        force == IF rail.positive_dir
                 THEN Frac(2 * e - 3 * (e - position_min), 2)
                 ELSE Frac(2 * e + 3 * (position_max - e), 2)
    IN [ forcepos |-> [ j \in 0..3 |-> IF j = axis THEN Some(force) ELSE None ],
         homepos |-> homepos ]

\* lines 135-147 for one axis of the loop: the home_rails call it makes, or
\* the IndexError of self.rails[axis] when there is no such rail
home_axis(k, axis) ==
    IF axis \notin DOMAIN k.rails
    THEN [ raised |-> "IndexError", call |-> None ]
    ELSE LET p == home_positions(k.rails[axis], axis)
         IN [ raised |-> "no",
              call |-> Some([ axis |-> axis, rails |-> <<axis>>,
                              forcepos |-> p.forcepos, homepos |-> p.homepos ]) ]

---------------------------------------------------------------------------
(* State *)

NoCall == [ op |-> "none", arg |-> None, pre |-> None, res |-> None ]

\* pc: where home() is; axes: homing_state.get_axes(); idx: the loop's place
\* in axes; issued: the home_rails calls made; completed: how many of them
\* have ended; raised: what the last home_rails call raised
HsIdle ==
    [ pc |-> "idle", axes |-> <<>>, idx |-> 0, issued |-> <<>>, completed |-> 0,
      raised |-> "no" ]

\* pc: where check_move() is; move: its argument; snap: the list that the
\* local variable limits of line 160 refers to; before: self.limits when the
\* call began; call: which of the two _check_endstops calls runs; i: its
\* axis; lo: the low bound read for the reason; res: the result
CmIdle ==
    [ pc |-> "idle", move |-> None, snap |-> None, before |-> None, call |-> 0,
      i |-> 0, lo |-> 0, res |-> None ]

\* constructor arguments of the two supported machines
ValidArgs ==
    { [ axes_ids |-> ListOf(<<3 * t, 3 * t + 1, 3 * t + 2>>),
        axis_set_letters |-> ListOf(<<Alphabet[3 * t], Alphabet[3 * t + 1], Alphabet[3 * t + 2]>>),
        layout |-> l ] : t \in 0..1, l \in RailLayouts }

\* the state after a successful construction
Init ==
    /\ \E args \in ValidArgs : kin = CoreXYKinematicsABC(args)
    /\ limits = reset_limits
    /\ railpos = [ i \in 0..2 |-> 0 ]
    /\ last = NoCall
    /\ hs = HsIdle
    /\ cm = CmIdle

\* the motion-processing context is free to make a call
PlannerFree ==
    /\ kin.status = "ok"
    /\ last.op = "none"
    /\ hs.pc \notin { "loop", "home_rails" }
    /\ cm.pc = "idle"

\* axis indices a caller may name: the rails' own and the triplet's global ones
AxisIds == (0..2) \cup { kin.axis[i] : i \in DOMAIN kin.axis }

HomingAxesInputs == { h \in SUBSET AxisIds : Cardinality(h) <= MaxHomingAxes }

NewPosInputs == 1..MaxNewPos

---------------------------------------------------------------------------
(* Actions *)

\* the caller takes the result of the last call
Return ==
    /\ last.op # "none"
    /\ last' = NoCall
    /\ UNCHANGED <<kin, limits, railpos, hs, cm>>

\* reset_limits()
ResetLimits ==
    /\ PlannerFree
    /\ limits' = reset_limits
    /\ last' = [ op |-> "reset_limits", arg |-> None, pre |-> limits, res |-> None ]
    /\ hs' = HsIdle
    /\ UNCHANGED <<kin, railpos, cm>>

\* set_position(newpos, homing_axes)
DoSetPosition(newpos, homing_axes) ==
    /\ limits' = set_position_limits(kin, limits, homing_axes)
    /\ railpos' = set_position_rails(kin, railpos, newpos)
    /\ last' = [ op |-> "set_position",
                 arg |-> [ newpos |-> newpos, homing_axes |-> homing_axes ],
                 pre |-> limits, res |-> None ]
    /\ UNCHANGED <<kin, cm>>

SetPositionOf(positions) ==
    /\ PlannerFree
    /\ \E newpos \in positions, homing_axes \in HomingAxesInputs :
          DoSetPosition(newpos, homing_axes)
    /\ hs' = HsIdle

SetPosition == SetPositionOf(NewPosInputs)

\* note_z_not_homed()
NoteZNotHomed ==
    /\ PlannerFree
    /\ limits' = note_z_not_homed(limits)
    /\ last' = [ op |-> "note_z_not_homed", arg |-> None, pre |-> limits, res |-> None ]
    /\ hs' = HsIdle
    /\ UNCHANGED <<kin, railpos, cm>>

\* get_status(eventtime)
GetStatus ==
    /\ PlannerFree
    /\ last' = [ op |-> "get_status", arg |-> None, pre |-> limits,
                 res |-> get_status(kin, limits) ]
    /\ hs' = HsIdle
    /\ UNCHANGED <<kin, limits, railpos, cm>>

\* the "stepper_enable:motor_off" event: _motor_off(print_time), at any time
MotorOff ==
    /\ kin.status = "ok"
    /\ "stepper_enable:motor_off" \in kin.event_handlers
    /\ limits' = motor_off(limits)
    /\ last' = [ op |-> "motor_off", arg |-> None, pre |-> limits,
                 res |-> [ hs_pc |-> hs.pc, cm_pc |-> cm.pc ] ]
    /\ UNCHANGED <<kin, railpos, hs, cm>>

\* the axis lists a HomingState may return: no axis twice
RECURSIVE AxisLists(_, _)
AxisLists(ids, n) ==
    IF n = 0 THEN { <<>> }
    ELSE LET shorter == AxisLists(ids, n - 1)
         IN shorter \cup { Append(l, a) : l \in shorter, a \in ids }

HomeAxesInputs ==
    { l \in AxisLists(AxisIds, MaxHomeLen) :
        \A i, j \in 1..Len(l) : i # j => l[i] # l[j] }

\* home(homing_state) is entered; homing_state.get_axes() returns axes
Home ==
    /\ PlannerFree
    /\ \E axes \in HomeAxesInputs :
          hs' = [ HsIdle EXCEPT !.pc = "loop", !.axes = axes, !.idx = 1 ]
    /\ UNCHANGED <<kin, limits, railpos, last, cm>>

\* one pass of the loop at line 134: the loop ends, or lines 135-147 run
\* up to the call of homing_state.home_rails
home_step(k, h) ==
    IF h.idx > Len(h.axes) THEN [ h EXCEPT !.pc = "returned" ]
    ELSE LET r == home_axis(k, h.axes[h.idx])
         IN IF r.raised # "no" THEN [ h EXCEPT !.pc = r.raised ]
            ELSE [ h EXCEPT !.pc = "home_rails",
                            !.issued = Append(h.issued, r.call[1]) ]

HomeNext ==
    /\ hs.pc = "loop"
    /\ hs' = home_step(kin, hs)
    /\ UNCHANGED <<kin, limits, railpos, last, cm>>

\* a slip: the loop does not move on to the next axis
home_rails_returned_same_axis(h) ==
    [ h EXCEPT !.pc = "loop", !.completed = h.completed + 1 ]

\* home_rails returned: the loop goes on with the next axis
home_rails_returned(h) ==
    [ h EXCEPT !.pc = "loop", !.idx = h.idx + 1, !.completed = h.completed + 1 ]

\* a slip: the error is caught and the loop goes on with the next axis
home_rails_raised_caught(h) ==
    [ h EXCEPT !.pc = "loop", !.idx = h.idx + 1, !.completed = h.completed + 1 ]

\* home_rails raised h.raised: nothing in home catches it, home ends with it
home_rails_raised(h) ==
    [ h EXCEPT !.pc = h.raised, !.completed = h.completed + 1 ]

HomeRailsOk ==
    /\ hs.pc = "home_rails"
    /\ hs' = home_rails_returned(hs)
    /\ UNCHANGED <<kin, limits, railpos, last, cm>>

HomeRailsFail ==
    /\ hs.pc = "home_rails"
    /\ hs' = home_rails_raised([ hs EXCEPT !.raised = "HomingFailure" ])
    /\ UNCHANGED <<kin, limits, railpos, last, cm>>

\* while it runs, home_rails sets the position of the axis it homes
HomeRailsSetPosition ==
    /\ hs.pc = "home_rails"
    /\ last.op = "none"
    /\ \E newpos \in NewPosInputs, homing_axes \in { {}, { hs.axes[hs.idx] } } :
          DoSetPosition(newpos, homing_axes)
    /\ UNCHANGED hs

Next ==
    \/ Return
    \/ ResetLimits
    \/ SetPosition
    \/ NoteZNotHomed
    \/ GetStatus
    \/ MotorOff
    \/ Home
    \/ HomeNext
    \/ HomeRailsOk
    \/ HomeRailsFail
    \/ HomeRailsSetPosition

Spec == Init /\ [][Next]_vars

---------------------------------------------------------------------------
(* Move validation, serialized: check_move runs without interruption *)

Coords == (-MaxCoord)..MaxCoord

\* total distance and pre-existing velocity and acceleration caps of a move
Profiles ==
    { [ move_d |-> 2, v |-> Frac(3, 1), a |-> Frac(1, 1) ],
      [ move_d |-> 3, v |-> Frac(5, 1), a |-> Frac(4, 1) ] }

\* per-axis displacements: none or some on axes 0 and 1, either sign on axis 2
Displacements ==
    { ListOf(<<dx, dy, dz>>) : dx \in { 0, 1 }, dy \in { 0, 1 }, dz \in { -1, 0, 2 } }

\* the moves handed to check_move: the total distance is at least the
\* distance covered on the three axes of this kinematics
Moves ==
    { [ end_pos |-> e, axes_d |-> d, move_d |-> p.move_d, v |-> p.v, a |-> p.a ] :
        e \in [ 0..2 -> Coords ],
        d \in Displacements,
        p \in Profiles }

ValidMove(m) ==
    m.move_d * m.move_d >=
        m.axes_d[0] * m.axes_d[0] + m.axes_d[1] * m.axes_d[1] + m.axes_d[2] * m.axes_d[2]

\* check_move(move)
CheckMove ==
    /\ PlannerFree
    /\ \E move \in Moves :
          /\ ValidMove(move)
          /\ last' = [ op |-> "check_move", arg |-> move, pre |-> limits,
                       res |-> check_move(limits, move) ]
    /\ hs' = HsIdle
    /\ UNCHANGED <<kin, limits, railpos, cm>>

NextMove ==
    \/ Return
    \/ ResetLimits
    \/ SetPosition
    \/ NoteZNotHomed
    \/ MotorOff
    \/ CheckMove

SpecMove == Init /\ [][NextMove]_vars

---------------------------------------------------------------------------
(* Properties of move validation *)

\* the end position of axis i lies outside the interval l
Outside(move, i, l) == move.end_pos[i] < l[1] \/ move.end_pos[i] > l[2]

\* axis i is displaced and would end outside the interval l
Violates(move, i, l) == move.axes_d[i] # 0 /\ Outside(move, i, l)

Checked == last.op = "check_move"

\* C1, as stated: check_move rejects every move whose end position on axis 0
\* or 1 lies outside that axis's Limit, whatever the displacements, with
\* "Must home axis first" when that Limit is the sentinel and the generic
\* move_error otherwise.
C1_RejectsEveryEndOutside ==
    Checked =>
        \A i \in { 0, 1 } :
            Outside(last.arg, i, last.pre[i]) =>
                last.res.outcome = IF last.pre[i] = Unhomed
                                   THEN "Must home axis first" ELSE "move_error"

\* C1, amended: check_move rejects every move that has, on axis 0 or 1, a
\* nonzero displacement and an end position outside that axis's Limit; the
\* reason is decided by the lowest such axis: "Must home axis first" when
\* its Limit is the sentinel, the generic move_error otherwise.
C1_RejectsDisplacedOutside ==
    Checked =>
        LET m == last.arg
            v0 == Violates(m, 0, last.pre[0])
            v1 == Violates(m, 1, last.pre[1])
            first == IF v0 THEN 0 ELSE 1
        IN (v0 \/ v1) =>
              last.res.outcome = IF last.pre[first] = Unhomed
                                 THEN "Must home axis first" ELSE "move_error"

\* C1 witness: axis 0 is homed and displaced out of range, axis 1 is unhomed
\* and displaced, and the move is rejected with the generic reason
C1_Witness ==
    /\ Checked
    /\ Homed(last.pre[0]) /\ Violates(last.arg, 0, last.pre[0])
    /\ last.pre[1] = Unhomed /\ Violates(last.arg, 1, last.pre[1])
    /\ last.res.outcome = "move_error"

\* C3: an accepted move with zero axis-2 displacement keeps its caps; with a
\* nonzero one, check_move requests max_z_velocity * move_d / |axes_d[2]| and
\* max_z_accel * move_d / |axes_d[2]|, each cap becomes the minimum of itself
\* and the request, and no cap is raised.
C3_ZCaps ==
    (Checked /\ last.res.outcome = "ok") =>
        LET m == last.arg
            out == last.res.move
            dz == Abs(m.axes_d[2])
        IN IF m.axes_d[2] = 0
           THEN out.v = m.v /\ out.a = m.a /\ last.res.req = None
           ELSE LET r == last.res.req[1]
                IN /\ r.speed.d > 0 /\ r.accel.d > 0
                   /\ r.speed.n * dz = max_z_velocity * m.move_d * r.speed.d
                   /\ r.accel.n * dz = max_z_accel * m.move_d * r.accel.d
                   /\ FracEq(out.v, IF FracLess(r.speed, m.v) THEN r.speed ELSE m.v)
                   /\ FracEq(out.a, IF FracLess(r.accel, m.a) THEN r.accel ELSE m.a)
                   /\ ~FracLess(m.v, out.v) /\ ~FracLess(m.a, out.a)

\* C3 witness: an accepted move with negative axis-2 displacement whose
\* acceleration cap is lowered to the request and whose velocity cap stays
C3_Witness ==
    /\ Checked /\ last.res.outcome = "ok"
    /\ last.arg.axes_d[2] < 0
    /\ FracLess(last.res.move.a, last.arg.a)
    /\ FracEq(last.res.move.a, last.res.req[1].accel)
    /\ last.res.move.v = last.arg.v
    /\ FracLess(last.arg.v, last.res.req[1].speed)

---------------------------------------------------------------------------
(* Properties of the limit array and of status reporting *)

AllUnhomed(lim) == DOMAIN lim = 0..2 /\ \A i \in 0..2 : lim[i] = Unhomed

\* C2: right after the motor-disable handler has run, from any state, all
\* three limits are the unhomed sentinel; the handler can always run.
C2_MotorOffResetsAll ==
    /\ last.op = "motor_off" => AllUnhomed(limits)
    /\ kin.status = "ok" => ENABLED MotorOff

\* C2 witness: the handler ran between two steps of a home() request, with
\* one execution completed, from a state with a homed and an unhomed slot
C2_Witness ==
    /\ last.op = "motor_off"
    /\ last.res.hs_pc = "home_rails" /\ hs.completed >= 1
    /\ \E i, j \in 0..2 : Homed(last.pre[i]) /\ ~Homed(last.pre[j])
    /\ AllUnhomed(limits)

\* the letter that get_status gives to slot i
SlotLetter(i) == <<"x", "y", "z">>[i + 1]

\* the slot of the j-th letter of a status string
LetterSlot(s, j) == CHOOSE i \in 0..2 : SlotLetter(i) = s[j]

\* C4: in every state the homed-axes string of get_status holds exactly the
\* letters of the slots with low <= high, in slot order; it is empty right
\* after reset_limits(), and it is "xy" after reset followed by
\* set_position(pos, {0,1}).
C4_HomedAxesString ==
    LET s == IF last.op = "get_status" THEN last.res.homed_axes
             ELSE get_status(kin, limits).homed_axes
    IN /\ \A j \in 1..Len(s) : \E i \in 0..2 : SlotLetter(i) = s[j]
       /\ \A i \in 0..2 : Homed(limits[i]) <=> (\E j \in 1..Len(s) : s[j] = SlotLetter(i))
       /\ \A j \in 1..(Len(s) - 1) : LetterSlot(s, j) < LetterSlot(s, j + 1)
       /\ last.op = "reset_limits" => s = <<>>
       /\ (/\ last.op = "set_position"
           /\ AllUnhomed(last.pre)
           /\ last.arg.homing_axes = { 0, 1 }) => s = <<"x", "y">>

\* C4 witness: get_status is called with slots 0 and 1 homed and slot 2
\* unhomed, the state that reset and set_position(pos, {0,1}) lead to, and
\* returns "xy"
C4_Witness ==
    /\ last.op = "get_status"
    /\ Homed(limits[0]) /\ Homed(limits[1]) /\ ~Homed(limits[2])
    /\ last.res.homed_axes = <<"x", "y">>

---------------------------------------------------------------------------
(* Properties of set_position *)

\* the configured axis indices, and the slot of a configured axis index
ConfiguredAxes == { kin.axis_config[i] : i \in DOMAIN kin.axis_config }

SlotOf(axis) == CHOOSE i \in DOMAIN kin.axis_config : kin.axis_config[i] = axis

\* C8, as stated, for calls that name configured axes: set_position pushes
\* newpos to every rail, sets the Limit of each slot whose axis index is in
\* homing_axes to the rail's range and leaves the other slots unchanged, for
\* the indices of a secondary triplet as well.
C8_SetPositionByAxisIndex ==
    (last.op = "set_position" /\ last.arg.homing_axes \subseteq ConfiguredAxes) =>
        /\ \A i \in DOMAIN kin.rails : railpos[i] = last.arg.newpos
        /\ \A i \in 0..2 :
              limits[i] = IF kin.axis_config[i] \in last.arg.homing_axes
                          THEN get_range(kin.rails[i])
                          ELSE last.pre[i]

---------------------------------------------------------------------------
(* Properties of homing *)

\* the axes of the home_rails calls issued so far, in order
IssuedAxes == [ j \in 1..Len(hs.issued) |-> hs.issued[j].axis ]

\* home() has ended, by returning or by an exception
HomeEnded == hs.pc \in { "returned", "HomingFailure", "IndexError" }

\* 1.5 times n, as a fraction
OneAndAHalf(n) == Frac(3 * n, 2)

\* C5, as stated: for every axis index listed by the HomingState, global
\* indices of a secondary triplet included, home issues a descriptor for that
\* axis's rail with homepos = endstop and forcepos = homepos -/+ 1.5 * distance
\* at that axis's index and null in every other slot.
C5_DescriptorForListedAxis ==
    (hs.pc \in { "home_rails", "IndexError" } /\ hs.axes[hs.idx] \in ConfiguredAxes) =>
        LET axis == hs.axes[hs.idx]
            rail == kin.rails[SlotOf(axis)]
            e == rail.position_endstop
            dist == IF rail.positive_dir THEN OneAndAHalf(e - rail.min)
                    ELSE OneAndAHalf(rail.max - e)
        IN /\ hs.pc = "home_rails"
           /\ LET d == hs.issued[Len(hs.issued)]
              IN /\ d.rails = <<SlotOf(axis)>>
                 /\ axis \in DOMAIN d.homepos /\ axis \in DOMAIN d.forcepos
                 /\ d.homepos[axis] = Some(e)
                 /\ \A j \in DOMAIN d.homepos \ { axis } : d.homepos[j] = None
                 /\ \A j \in DOMAIN d.forcepos \ { axis } : d.forcepos[j] = None
                 /\ LET f == d.forcepos[axis][1]
                    IN IF rail.positive_dir
                       THEN f.n * dist.d = (e * dist.d - dist.n) * f.d
                       ELSE f.n * dist.d = (e * dist.d + dist.n) * f.d

\* C6, as stated, for requests that name only axes that have a rail: when
\* home() has ended, home_rails has been executed exactly once per listed
\* axis, in the order of the list.
C6_OncePerListedAxis ==
    (HomeEnded /\ \A j \in 1..Len(hs.axes) : hs.axes[j] \in DOMAIN kin.rails) =>
        IssuedAxes = hs.axes

\* C6, amended: the home_rails executions of one request are issued for one
\* rail each, in the order of the HomingState's list and at most once per
\* listed axis (they are a prefix of the list); an execution is issued only
\* when every earlier one has completed; and when home() returns normally
\* every listed axis has been executed exactly once.
C6_SequentialPrefix ==
    /\ Len(hs.issued) <= Len(hs.axes)
    /\ \A j \in 1..Len(hs.issued) :
          hs.issued[j].axis = hs.axes[j] /\ hs.issued[j].rails = <<hs.axes[j]>>
    /\ hs.completed <= Len(hs.issued)
    /\ Len(hs.issued) <= hs.completed + 1
    /\ (Len(hs.issued) = hs.completed + 1) <=> (hs.pc = "home_rails")
    /\ hs.pc = "returned" => (IssuedAxes = hs.axes /\ hs.completed = Len(hs.axes))

\* C6 witness: a request for two axes has returned, with two executions
\* issued and completed
C6_Witness ==
    /\ hs.pc = "returned"
    /\ Len(hs.axes) = 2 /\ Len(hs.issued) = 2 /\ hs.completed = 2

\* C7: when a home_rails execution fails, home() ends with that same
\* failure, the failing axis has been executed once, no execution is issued
\* for a later axis, and nothing more is issued for the request.
C7_FailureAborts ==
    /\ [](hs.raised # "no" =>
             /\ hs.pc = hs.raised
             /\ hs.completed = Len(hs.issued)
             /\ Len(hs.issued) = hs.idx
             /\ \A j \in 1..Len(hs.issued) : hs.issued[j].axis = hs.axes[j])
    /\ [][hs.raised # "no" => (hs' = hs \/ hs'.issued = <<>>)]_vars

\* C7 witness: the execution of the first of two listed axes has failed
C7_Witness ==
    /\ hs.pc = "HomingFailure" /\ hs.raised = "HomingFailure"
    /\ Len(hs.axes) = 2 /\ hs.idx = 1 /\ Len(hs.issued) = 1

---------------------------------------------------------------------------
(* Construction as an operation *)

\* the axis index tuples given to the constructor: no index twice
AxesIdsInputs ==
    { ListOf(l) : l \in { q \in AxisLists(0..MaxAxisId, MaxIds) :
                            \A i, j \in 1..Len(q) : i # j => q[i] # q[j] } }

\* the axis letter strings given to the constructor: the first letters of
\* the primary or of the secondary triplet
LettersInputs ==
    { [ i \in 0..(n - 1) |-> Alphabet[3 * t + i] ] : n \in 0..3, t \in 0..1 }

CtorInputs ==
    { [ axes_ids |-> ids, axis_set_letters |-> letters, layout |-> l ] :
        ids \in AxesIdsInputs, letters \in LettersInputs, l \in RailLayouts }

\* before construction: the arguments are chosen, nothing exists yet
InitNew ==
    /\ \E args \in CtorInputs : kin = NewKin(args)
    /\ limits = None
    /\ railpos = None
    /\ last = NoCall
    /\ hs = HsIdle
    /\ cm = CmIdle

\* CoreXYKinematicsABC(toolhead, config, trapq, axes_ids, axis_set_letters)
Construct ==
    /\ kin.status = "new"
    /\ kin' = CoreXYKinematicsABC(kin.args)
    /\ limits' = IF kin'.status = "ok" THEN reset_limits ELSE limits
    /\ railpos' = [ i \in DOMAIN kin'.rails |-> 0 ]
    /\ last' = [ op |-> "__init__", arg |-> kin.args, pre |-> None, res |-> kin'.status ]
    /\ UNCHANGED <<hs, cm>>

NextInit ==
    \/ Construct
    \/ Return

SpecInit == InitNew /\ [][NextInit]_vars

\* nothing has been registered with the collaborators
NothingRegistered ==
    /\ kin.step_generators = {}
    /\ kin.event_handlers = {}
    /\ \A i \in DOMAIN kin.endstop_steppers :
          kin.endstop_steppers[i] = get_endstops(kin.rails, i)
    /\ \A i \in DOMAIN kin.itersolve : kin.itersolve[i] = "none"

\* C9, as stated: construction with letters and indices of different lengths
\* fails with a configuration error naming both inputs and registers nothing;
\* with equal lengths 1, 2 or 3 it succeeds.
C9_LengthCheck ==
    kin.status # "new" =>
        LET nl == ListLen(kin.args.axis_set_letters)
            ni == ListLen(kin.args.axes_ids)
        IN /\ nl # ni =>
                 /\ kin.status = "Exception"
                 /\ kin.msg = Some(<<kin.args.axes_ids, kin.args.axis_set_letters>>)
                 /\ NothingRegistered
           /\ (nl = ni /\ nl \in 1..3) => kin.status = "ok"

\* the part of C9 that the code keeps: mismatched lengths always fail with
\* the configuration error and register nothing, and length 3 succeeds
C9_MismatchFails ==
    kin.status # "new" =>
        LET nl == ListLen(kin.args.axis_set_letters)
            ni == ListLen(kin.args.axes_ids)
        IN /\ nl # ni =>
                 /\ kin.status = "Exception"
                 /\ kin.msg = Some(<<kin.args.axes_ids, kin.args.axis_set_letters>>)
                 /\ NothingRegistered
           /\ (nl = ni /\ nl = 3) => kin.status = "ok"

---------------------------------------------------------------------------
(* Move validation, interleaved: check_move runs one read of self.limits   *)
(* at a time, and the motor_off handler may run between any two reads.     *)
(* reset_limits rebinds self.limits to a new list, so the list that the    *)
(* local variable of line 160 refers to keeps its content, while           *)
(* _check_endstops reads self.limits anew at every use.                    *)

\* the first displaced axis from i on, 3 when there is none (line 153)
RECURSIVE next_axis(_, _)
next_axis(move, i) ==
    IF i > 2 THEN 3
    ELSE IF move.axes_d[i] # 0 THEN i ELSE next_axis(move, i + 1)

\* check_move has ended with this outcome
cm_done(c, outcome, move, req) ==
    [ c EXCEPT !.pc = "done", !.res = Some(Result(outcome, move, req)) ]

\* lines 169-172 after the second _check_endstops returned
cm_limit_speed(c) ==
    LET req == z_request(c.move)
    IN cm_done(c, "ok", limit_speed(c.move, req.speed, req.accel), Some(req))

\* lines 165-169: after the test of lines 162-164
cm_after_xy(c) ==
    IF c.move.axes_d[2] = 0 THEN cm_done(c, "ok", c.move, None)
    ELSE [ c EXCEPT !.pc = "lo", !.call = 2, !.i = next_axis(c.move, 0) ]

\* _check_endstops returns without raising
ce_return(c) == IF c.call = 1 THEN cm_after_xy(c) ELSE cm_limit_speed(c)

\* _check_endstops goes on from axis i: the next displaced axis, or return
ce_goto(c, i) ==
    LET j == next_axis(c.move, i)
    IN IF j > 2 THEN ce_return(c) ELSE [ c EXCEPT !.pc = "lo", !.i = j ]

\* a subset of the moves, with one profile, for the interleaved execution
RaceMoves == { m \in Moves : m.move_d = 3 }

\* line 160: limits = self.limits
CmBegin ==
    /\ PlannerFree
    /\ \E move \in RaceMoves :
          cm' = [ CmIdle EXCEPT !.pc = "xy", !.move = move, !.snap = limits,
                                !.before = limits ]
    /\ hs' = HsIdle
    /\ UNCHANGED <<kin, limits, railpos, last>>

\* lines 161-164, on the list of line 160: call _check_endstops or go on
CmXY ==
    /\ cm.pc = "xy"
    /\ cm' = IF xy_outside(cm.snap, cm.move)
             THEN ce_goto([ cm EXCEPT !.call = 1 ], 0)
             ELSE cm_after_xy(cm)
    /\ UNCHANGED <<kin, limits, railpos, last, hs>>

\* line 154: end_pos[i] < self.limits[i][0]
CeReadLo ==
    /\ cm.pc = "lo"
    /\ cm' = IF cm.move.end_pos[cm.i] < limits[cm.i][1]
             THEN [ cm EXCEPT !.pc = "rlo" ]
             ELSE [ cm EXCEPT !.pc = "hi" ]
    /\ UNCHANGED <<kin, limits, railpos, last, hs>>

\* line 155: end_pos[i] > self.limits[i][1]
CeReadHi ==
    /\ cm.pc = "hi"
    /\ cm' = IF cm.move.end_pos[cm.i] > limits[cm.i][2]
             THEN [ cm EXCEPT !.pc = "rlo" ]
             ELSE ce_goto(cm, cm.i + 1)
    /\ UNCHANGED <<kin, limits, railpos, last, hs>>

\* line 156, left operand: self.limits[i][0]
CeReasonLo ==
    /\ cm.pc = "rlo"
    /\ cm' = [ cm EXCEPT !.pc = "rhi", !.lo = limits[cm.i][1] ]
    /\ UNCHANGED <<kin, limits, railpos, last, hs>>

\* line 156, right operand: self.limits[i][1]; lines 157-158 raise
CeReasonHi ==
    /\ cm.pc = "rhi"
    /\ cm' = cm_done(cm, IF cm.lo > limits[cm.i][2] THEN "Must home axis first"
                         ELSE "move_error", cm.move, None)
    /\ UNCHANGED <<kin, limits, railpos, last, hs>>

\* check_move returns or raises to its caller
CmReturn ==
    /\ cm.pc = "done"
    /\ last' = [ op |-> "check_move", arg |-> cm.move, pre |-> cm.before,
                 res |-> cm.res[1] ]
    /\ cm' = CmIdle
    /\ UNCHANGED <<kin, limits, railpos, hs>>

NextRace ==
    \/ Return
    \/ SetPositionOf({ 1 })
    \/ MotorOff
    \/ CmBegin
    \/ CmXY
    \/ CeReadLo
    \/ CeReadHi
    \/ CeReasonLo
    \/ CeReasonHi
    \/ CmReturn

SpecRace == Init /\ [][NextRace]_vars

\* C10, as stated: with the motor-disable handler interleaved at any point
\* of a check_move, the outcome of the check_move is the one it would have
\* had with the reset entirely before it or entirely after it.
C10_OutcomeAsBeforeOrAfter ==
    cm.pc = "done" =>
        cm.res[1].outcome \in { check_move(cm.before, cm.move).outcome,
                                check_move(reset_limits, cm.move).outcome }

\* without an interleaved handler the stepwise execution ends as the
\* uninterrupted one does
RaceAgreesWhenUninterrupted ==
    (cm.pc = "done" /\ limits = cm.before) =>
        cm.res[1] = check_move(cm.before, cm.move)

---------------------------------------------------------------------------
(* The forward transform: calc_position *)

\* rail positions handed to calc_position lie in -MaxRailPos..MaxRailPos
MaxRailPos == 10

\* the lower-case letters of the stepper sections, in Alphabet order
LowerAlphabet == ListOf(<<"x", "y", "z", "a", "b", "c", "u", "v", "w">>)

\* rail.get_name() of rail i: the section 'stepper_' + letter.lower()
get_name(k, i) ==
    LET c == CHOOSE j \in DOMAIN Alphabet : Alphabet[j] = k.axis_names[i]
    IN <<"stepper_", LowerAlphabet[c]>>

\* a slip: the sum and the difference change places
calc_position_swapped(k, stepper_positions) ==
    LET pos == [ i \in DOMAIN k.rails |-> stepper_positions[get_name(k, i)] ]
    IN ListOf(<<Frac(pos[0] - pos[1], 2), Frac(pos[0] + pos[1], 2), pos[2]>>)

\* calc_position (lines 121-123); 0.5 * n is the exact fraction n/2
calc_position(k, stepper_positions) ==
    LET pos == [ i \in DOMAIN k.rails |-> stepper_positions[get_name(k, i)] ]
    IN ListOf(<<Frac(pos[0] + pos[1], 2), Frac(pos[0] - pos[1], 2), pos[2]>>)

RailCoords == (-MaxRailPos)..MaxRailPos

\* the mappings rail name -> measured position given to calc_position
StepperPositions ==
    [ { get_name(kin, i) : i \in DOMAIN kin.rails } -> RailCoords ]

\* calc_position(stepper_positions)
CalcPosition ==
    /\ PlannerFree
    /\ \E sp \in StepperPositions :
          last' = [ op |-> "calc_position", arg |-> sp, pre |-> limits,
                    res |-> calc_position(kin, sp) ]
    /\ hs' = HsIdle
    /\ UNCHANGED <<kin, limits, railpos, cm>>

NextCalc ==
    \/ Return
    \/ CalcPosition

SpecCalc == Init /\ [][NextCalc]_vars

\* C11: for all rail positions (p0, p1, p2) calc_position returns
\* x = 0.5 * (p0 + p1), y = 0.5 * (p0 - p1), z = p2, and for every machine
\* coordinate (x, y, z) it returns (x, y, z) on the rail positions
\* (x + y, x - y, z).
C11_ForwardTransform ==
    last.op = "calc_position" =>
        LET p == [ i \in 0..2 |-> last.arg[get_name(kin, i)] ]
            r == last.res
        IN /\ DOMAIN r = 0..2
           /\ r[0].d > 0 /\ r[1].d > 0
           /\ 2 * r[0].n = (p[0] + p[1]) * r[0].d
           /\ 2 * r[1].n = (p[0] - p[1]) * r[1].d
           /\ r[2] = p[2]
           /\ \A x \in RailCoords :
                 LET y == p[0] - x
                     z == p[2]
                 IN (p[0] = x + y /\ p[1] = x - y /\ p[2] = z) =>
                       /\ r[0].n = x * r[0].d
                       /\ r[1].n = y * r[1].d
                       /\ r[2] = z

\* C11 witness: the rail positions p0 = 10, p1 = 4 give x = 7, y = 3
C11_Witness ==
    /\ last.op = "calc_position"
    /\ last.arg[get_name(kin, 0)] = 10 /\ last.arg[get_name(kin, 1)] = 4
    /\ FracEq(last.res[0], Frac(7, 1)) /\ FracEq(last.res[1], Frac(3, 1))
    /\ last.res[2] = last.arg[get_name(kin, 2)]

---------------------------------------------------------------------------
(* Properties of construction *)

\* the lengths of the inputs match and there are rails for the coupled pair
HasCoupledPair ==
    /\ ListLen(kin.args.axis_set_letters) = ListLen(kin.args.axes_ids)
    /\ ListLen(kin.args.axis_set_letters) >= 2

\* C12, as stated: for a configuration with the two coupled axes,
\* construction completes, and then every endstop of rail 0 holds every
\* stepper of rail 1 and every endstop of rail 1 holds every stepper of
\* rail 0; no homing move can be issued before construction has completed.
C12_CrossRegistered ==
    (kin.status # "new" /\ HasCoupledPair) =>
        /\ kin.status = "ok"
        /\ \A j \in DOMAIN kin.endstop_steppers[0] :
              get_steppers(kin.rails, 1) \subseteq kin.endstop_steppers[0][j]
        /\ \A j \in DOMAIN kin.endstop_steppers[1] :
              get_steppers(kin.rails, 0) \subseteq kin.endstop_steppers[1][j]

\* the part of C12 that the code keeps: once lines 71-74 have run, the first
\* endstop of each rail of the pair holds the other rail's steppers, and
\* every endstop keeps the steppers it had
C12_FirstEndstopCrossed ==
    (kin.status # "new" /\ HasCoupledPair) =>
        /\ get_steppers(kin.rails, 1) \subseteq kin.endstop_steppers[0][0]
        /\ get_steppers(kin.rails, 0) \subseteq kin.endstop_steppers[1][0]
        /\ \A i \in DOMAIN kin.rails : \A j \in DOMAIN kin.endstop_steppers[i] :
              get_endstops(kin.rails, i)[j] \subseteq kin.endstop_steppers[i][j]

\* the triplet [3b, 3b+1, 3b+2] with b = indices[0] // 3
TripletOf(ids) == [ i \in 0..2 |-> 3 * (ids[0] \div 3) + i ]

\* C13, as stated: after a successful construction the triplet is
\* [3b, 3b+1, 3b+2] with b = indices[0] // 3, every configured axis index
\* lies inside it, the dummy axes are exactly the triplet slots absent from
\* the configured indices, and dummy axes plus configured axes are 3.
C13_TripletAndDummies ==
    kin.status = "ok" =>
        LET triplet == TripletOf(kin.args.axes_ids)
            slots == { triplet[i] : i \in 0..2 }
        IN /\ kin.axis = triplet
           /\ ConfiguredAxes \subseteq slots
           /\ kin.dummy_axes = slots \ ConfiguredAxes
           /\ Cardinality(kin.dummy_axes) + ListLen(kin.axis_config) = 3

\* the part of C13 that the code keeps: the triplet follows from the first
\* index, and the dummy axes are the triplet slots that are not configured
C13_TripletResolved ==
    kin.status = "ok" =>
        LET triplet == TripletOf(kin.args.axes_ids)
        IN /\ kin.axis = triplet
           /\ kin.dummy_axes = { triplet[i] : i \in 0..2 } \ ConfiguredAxes

---------------------------------------------------------------------------
(* Properties of the limit array under move validation *)

\* the move displaces axis i
Displaces(move, i) == move.axes_d[i] # 0

\* C14: note_z_not_homed sets the Limit of slot 2 to the sentinel and leaves
\* slots 0 and 1 unchanged; slot 2 leaves the sentinel only by a
\* set_position that homes it; and while slot 2 is the sentinel every
\* check_move of a move with nonzero axis-2 displacement is rejected.
C14_ZUnhomedRejects ==
    /\ [](last.op = "note_z_not_homed" =>
             /\ limits[2] = Unhomed
             /\ limits[0] = last.pre[0] /\ limits[1] = last.pre[1])
    /\ [][(limits[2] = Unhomed /\ limits'[2] # Unhomed) =>
             (last'.op = "set_position" /\ 2 \in last'.arg.homing_axes)]_vars
    /\ []((Checked /\ last.pre[2] = Unhomed /\ Displaces(last.arg, 2)) =>
             last.res.outcome # "ok")

\* C14 witness: slots 0 and 1 are homed and slot 2 is not; a move along
\* axis 2 only, ending inside the travel range of all three rails, is rejected
C14_Witness ==
    /\ Checked
    /\ Homed(last.pre[0]) /\ Homed(last.pre[1]) /\ last.pre[2] = Unhomed
    /\ ~Displaces(last.arg, 0) /\ ~Displaces(last.arg, 1) /\ Displaces(last.arg, 2)
    /\ \A i \in 0..2 : ~Outside(last.arg, i, get_range(kin.rails[i]))
    /\ last.res.outcome = "Must home axis first"

---------------------------------------------------------------------------
(* All operations together: the limit operations, homing and serialized    *)
(* move validation                                                         *)

\* check_move(move), called when no home() request is open or just ended
CheckMoveIdle ==
    /\ hs.pc = "idle"
    /\ CheckMove

NextAll ==
    \/ Next
    \/ CheckMoveIdle

SpecAll == Init /\ [][NextAll]_vars

\* the move may be accepted on account of axis i under the Limit l: it does
\* not displace the axis, or l is homed and holds the end position
AxisAllows(move, i, l) ==
    Displaces(move, i) =>
        (Homed(l) /\ l[1] <= move.end_pos[i] /\ move.end_pos[i] <= l[2])

\* C15: whatever sequence of reset_limits, set_position, note_z_not_homed,
\* home and motor_off came before, an uninterrupted check_move accepts a
\* move only if every axis i of 0, 1, 2 with nonzero displacement has a homed
\* Limit with low <= end_pos[i] <= high.
C15_AcceptsOnlyWithinHomedLimits ==
    (Checked /\ last.res.outcome = "ok") =>
        \A i \in 0..2 : AxisAllows(last.arg, i, last.pre[i])

\* C15 witness: a move that displaces all three axes is accepted, with all
\* three Limits homed
C15_Witness ==
    /\ Checked /\ last.res.outcome = "ok"
    /\ \A i \in 0..2 : Displaces(last.arg, i) /\ Homed(last.pre[i])

\* C16: right after the motor_off handler all Limits are the sentinel; they
\* stay so until a set_position with a non-empty homing_axes; and while they
\* are, every check_move of a move that displaces at least one of the axes
\* 0, 1, 2 is rejected with "Must home axis first", whatever its end position.
C16_AfterMotorOffMustHome ==
    /\ [](last.op = "motor_off" => AllUnhomed(limits))
    /\ [][(AllUnhomed(limits) /\ ~AllUnhomed(limits')) =>
             (last'.op = "set_position" /\ last'.arg.homing_axes # {})]_vars
    /\ []((/\ Checked
           /\ AllUnhomed(last.pre)
           /\ \E i \in 0..2 : Displaces(last.arg, i)) =>
             last.res.outcome = "Must home axis first")

\* C16 witness: with all Limits at the sentinel, a move along axis 1 only,
\* ending inside the travel range of all three rails, is rejected with
\* "Must home axis first"
C16_Witness ==
    /\ Checked /\ AllUnhomed(last.pre)
    /\ ~Displaces(last.arg, 0) /\ Displaces(last.arg, 1) /\ ~Displaces(last.arg, 2)
    /\ \A i \in 0..2 : ~Outside(last.arg, i, get_range(kin.rails[i]))
    /\ last.res.outcome = "Must home axis first"

\* C17: check_move leaves the Limit array as it was, whether it accepts or
\* rejects, and a rejected move has the velocity and acceleration caps it had
\* before the call.
C17_CheckMoveFrame ==
    Checked =>
        /\ limits = last.pre
        /\ last.res.outcome # "ok" =>
              /\ last.res.move.v = last.arg.v
              /\ last.res.move.a = last.arg.a
              /\ last.res.req = None

\* C17 witness: a move with nonzero axis-2 displacement passes the test of
\* axes 0 and 1 and is rejected by the diagnosis of all three axes; the
\* scaling would have lowered its acceleration cap
C17_Witness ==
    /\ Checked /\ last.res.outcome # "ok"
    /\ Displaces(last.arg, 2)
    /\ ~xy_outside(last.pre, last.arg)
    /\ FracLess(z_request(last.arg).accel, last.arg.a)
    /\ last.res.move = last.arg
    /\ limits = last.pre

\* C18: in every reachable state the Limit array has exactly 3 slots, and
\* slot i holds the sentinel (1.0, -1.0) or the full travel range of rail i.
C18_SentinelOrRailRange ==
    /\ DOMAIN limits = 0..2
    /\ \A i \in 0..2 : limits[i] = Unhomed \/ limits[i] = get_range(kin.rails[i])

\* C18 witness: during a home() request set_position has given one slot its
\* rail's range while another slot holds the sentinel
C18_Witness ==
    /\ hs.pc = "home_rails" /\ last.op = "set_position"
    /\ last.arg.homing_axes # {}
    /\ \E i, j \in 0..2 :
          /\ last.pre[i] = Unhomed /\ limits[i] = get_range(kin.rails[i])
          /\ limits[j] = Unhomed

===========================================================================
